---- MODULE Spec2Model ----
(***************************************************************************)
(* A model of the search pipeline of humioctl (cmd/humioctl/search.go):    *)
(* the query job poller with its cancellation context, the event list      *)
(* printer with its dedup set and its format template, and the aggregate   *)
(* printer with its sticky column list; of the migration of legacy alerts  *)
(* (alerts_export.go); and of profiles add (profiles_add.go).              *)
(*                                                                         *)
(* The specifications share the variables:                                 *)
(*   SpecPoller     calls of queryJobPoller.WaitAndPollContext on one      *)
(*                  poller, the clock, and the interrupt goroutine;        *)
(*   SpecEvents     calls of eventListPrinter.print on one printer;        *)
(*   SpecAggregate  calls of aggregatePrinter.print on one printer;        *)
(*   SpecProgress   calls of queryResultProgressBar.Update and of          *)
(*                  printQueryResultProgressJson;                          *)
(*   SpecSearch     one run of the search command (newSearchCmd): Create,  *)
(*                  the poll loops with their progress and data output,    *)
(*                  the deferred Delete, and the exit;                     *)
(*   SpecSearchFair the same run with the fairness its scheduling gives;   *)
(*   SpecFormat     newEventListPrinter on a template, then calls of       *)
(*                  printEventFunc;                                        *)
(*   SpecQueryStart calls of getSecondsFromQueryStart;                     *)
(*   SpecMigrate    calls of migrateLegacyAlert, request by request;       *)
(*   SpecProfiles   runs of profiles add with saveConfig.                  *)
(***************************************************************************)
EXTENDS Integers, Sequences, FiniteSets, TLC

VARIABLES
    \* ---- clock, interrupt context (contextCancelledOnInterrupt) ----
    now,            \* time.Now(), in clock ticks
    sigC,           \* number of signals buffered in sigC (capacity 1)
    gpc,            \* the goroutine of contextCancelledOnInterrupt: "recv" | "done"
    cancelled,      \* ctx.Done() is closed
    \* ---- queryJobPoller ----
    nextPoll,       \* queryJobPoller.nextPoll
    wpc,            \* position in WaitAndPollContext: "idle" | "select" | "issue" | "inflight"
    ret,            \* what the last WaitAndPollContext call returned
    polls,          \* number of PollContext requests issued      (history)
    issuedAt,       \* time the last PollContext was issued         (history)
    hasResp,        \* some PollContext has succeeded               (history)
    respAt,         \* time the last successful response arrived    (history)
    respPollAfter,  \* Metadata.PollAfter of that response          (history)
    \* ---- eventListPrinter ----
    printedIds,     \* eventListPrinter.printedIds (the set of keys mapped to true)
    lastIn,         \* result.Events as passed to the last print call
    lastOut,        \* events handed to printEventFunc by the last print call, in order
    idCount,        \* per identifier: how often it was handed to printEventFunc (history)
    \* ---- aggregatePrinter ----
    columns,        \* aggregatePrinter.columns
    prevColumns,    \* columns before the last print call           (history)
    aggIn,          \* the snapshot passed to the last print call
    aggOut,         \* what the last print call wrote to p.w
    aggCalls,       \* number of print calls                        (history)
    sawFieldOrder,  \* some snapshot so far carried a FieldOrder    (history)
    \* ---- queryResultProgressBar, printQueryResultProgressJson ----
    epsValue,       \* queryResultProgressBar.epsValue
    bpsValue,       \* queryResultProgressBar.bpsValue
    hits,           \* queryResultProgressBar.hits
    barSet,         \* the arguments of the last b.bar.Set
    lastUpd,        \* Metadata given to the last Update call       (history)
    jsonIn,         \* the snapshot given to the last printQueryResultProgressJson
    jsonOut,        \* the record it returned, each field as JSON text
    \* ---- newSearchCmd (Run) ----
    spc,            \* where Run is
    live,           \* the --live flag
    jsonProgress,   \* the --json-progress flag
    noProgress,     \* the --no-progress flag, as Run adjusts it
    created,        \* Create returned an id
    createRes,      \* what Create returned                          (history)
    progress,       \* progress != nil
    finished,       \* progress.Finish() was called
    printer,        \* which printer Run constructed
    returned,       \* the value of the lambda's return statement    (history)
    err,            \* Run's err after the lambda and its defer
    creates,        \* Create requests sent                          (history)
    deletes,        \* Delete requests sent                          (history)
    deleteRes,      \* what Delete returned                          (history)
    okPre,          \* snapshots received by the first call and the
                    \* `for !result.Done` loop                       (history)
    okLive,         \* snapshots received by the live loop           (history)
    updates,        \* progress.Update calls                         (history)
    jsonRecords,    \* JSON progress records printed                 (history)
    prints,         \* printer.print calls                           (history)
    printedNotDone, \* printer.print was given a snapshot not Done   (history)
    sawDone,        \* a Done snapshot was received                  (history)
    pollsAtDone,    \* polls when the first Done snapshot arrived    (history)
    pollsAtErr,     \* polls when Create or a poll returned an error (history)
    exitStatus,     \* the process exit status, once Run is over
    stderr,         \* which error message Run printed
    resAgg,         \* result.Metadata.IsAggregate of the current result
    resEvents,      \* result.Events of the current result
    firstAgg,       \* IsAggregate of the first snapshot              (history)
    lastTarget,     \* the printer the last printer.print went to     (history)
    printedOther,   \* a snapshot was printed whose IsAggregate differs
                    \* from the first snapshot's                      (history)
    polledIds,      \* the @id values of all snapshots polled         (history)
    dueIds,         \* the @id values of the snapshots that are Done
                    \* or were polled by the live loop                (history)
    pollsAtDelete,  \* polls when Delete was requested                (history)
    \* ---- profiles add (newProfilesAddCmd, saveConfig) ----
    disk,           \* the profiles in the configuration file on disk
    lastProfile,    \* the profile name of the last `profiles add`
    lastWrite,      \* the outcomes of its three file system calls    (history)
    saveRet,        \* what saveConfig returned
    persisted,      \* a write of the configuration succeeded in it   (history)
    addMsg,         \* what the command printed
    \* ---- newEventListPrinter and printEventFunc ----
    fpc,            \* "new" before newEventListPrinter, then "built"
    template,       \* the --fmt template, a sequence of characters
    efmt,           \* eventListPrinter.fmt, the compiled format string
    printFields,    \* eventListPrinter.printFields
    fmtEvent,       \* the event of the last printEventFunc call     (history)
    line,           \* what that call wrote
    \* ---- getSecondsFromQueryStart, migrateLegacyAlert ----
    qsIn,           \* the argument of the last getSecondsFromQueryStart call
    qsOut,          \* what it returned
    mpc,            \* where migrateLegacyAlert is: "idle" between calls
    alertNo,        \* the i of the call, 0 before the first
    legacyAlert,    \* its legacyAlert argument
    secs,           \* what getSecondsFromQueryStart returned
    interval,       \* searchIntervalSeconds
    throttle,       \* throttleTimeSeconds
    requests,       \* the API requests of the call, in order       (history)
    createErr,      \* the error of AggregateAlerts().Create
    deleteErr,      \* the error of Alerts().Delete
    legacyExists,   \* the server still has the legacy alert
    migResult       \* the last message the call printed

ctxVars    == <<now, sigC, gpc, cancelled>>
pollerVars == <<nextPoll, wpc, ret, polls, issuedAt, hasResp, respAt, respPollAfter>>
eventVars  == <<printedIds, lastIn, lastOut, idCount>>
aggVars    == <<columns, prevColumns, aggIn, aggOut, aggCalls, sawFieldOrder>>
progVars   == <<epsValue, bpsValue, hits, barSet, lastUpd, jsonIn, jsonOut>>
sessVars   == <<spc, live, jsonProgress, noProgress, created, createRes, progress,
                finished, printer, returned, err, creates, deletes, deleteRes,
                okPre, okLive, updates, jsonRecords, prints, printedNotDone,
                sawDone, pollsAtDone, pollsAtErr, exitStatus, stderr, resAgg,
                resEvents, firstAgg, lastTarget, printedOther, polledIds,
                dueIds, pollsAtDelete>>
snapVars   == <<resAgg, resEvents, firstAgg, lastTarget, printedOther, polledIds,
                dueIds>>
profVars   == <<disk, lastProfile, lastWrite, saveRet, persisted, addMsg>>
fmtVars    == <<fpc, template, efmt, printFields, fmtEvent, line>>
migVars    == <<qsIn, qsOut, mpc, alertNo, legacyAlert, secs, interval, throttle, requests,
                createErr, deleteErr, legacyExists, migResult>>
vars       == <<ctxVars, pollerVars, eventVars, aggVars, progVars, sessVars, profVars, fmtVars, migVars>>

(***************************************************************************)
(* Bounds of the model.                                                    *)
(***************************************************************************)
MaxTime      == 4   \* the clock stops ticking here
MaxPollAfter == 2   \* largest Metadata.PollAfter the server advises, in ticks
MaxPolls     == 3   \* PollContext requests per poller
MaxEvents    == 2   \* events per snapshot given to eventListPrinter.print
MaxRows      == 2   \* rows per snapshot given to aggregatePrinter.print
MaxAggCalls  == 3   \* aggregatePrinter.print calls per session
MaxTemplate  == 5   \* characters in a --fmt template
MaxAlerts    == 2   \* legacy alerts one migrate-all run goes through

(***************************************************************************)
(* JSON values as Go sees them in map[string]interface{}: a field is       *)
(* absent (a lookup yields nil), a string, or a float64.                   *)
(***************************************************************************)
Absent   == [t |-> "absent"]
Str(s)   == [t |-> "str", s |-> s]
Num(n)   == [t |-> "num", n |-> n]

\* v.(string) and v.(float64): the second result of the type assertion
IsString(v)  == v.t = "str"
IsFloat64(v) == v.t = "num"

(***************************************************************************)
(* contextCancelledOnInterrupt                                             *)
(***************************************************************************)
\* the operating system delivers SIGINT or SIGTERM; signal.Notify does not
\* block: a signal that finds the buffer full is dropped
Signal ==
    /\ sigC = 0
    /\ sigC' = 1
    /\ UNCHANGED <<now, gpc, cancelled>>

\* go func() { <-sigC; cancel() }()
InterruptHandler ==
    /\ gpc = "recv"
    /\ sigC = 1
    /\ sigC' = 0
    /\ cancelled' = TRUE
    /\ gpc' = "done"
    /\ UNCHANGED now

Tick ==
    /\ now < MaxTime
    /\ now' = now + 1
    /\ UNCHANGED <<sigC, gpc, cancelled>>

(***************************************************************************)
(* queryJobPoller.WaitAndPollContext                                       *)
(***************************************************************************)
PollAfterVals == 0..MaxPollAfter

NoReturn        == [kind |-> "none"]
Result(pa, d)   == [kind |-> "result", pollAfter |-> pa, done |-> d]
Error(e)        == [kind |-> "error", err |-> e]

\* <-time.After(time.Until(q.nextPoll)) is ready: the duration has elapsed
TimerFiredNoWait(t, np) == TRUE
TimerFired(t, np) == t >= np

\* queryJobPoller{queryJobs, repository, id}: nextPoll is the zero time.Time,
\* which lies before every reading of the clock
InitialNextPollDelayed == 1 + MaxPollAfter
InitialNextPoll == 0

\* time.Now().Add(time.Duration(result.Metadata.PollAfter) * time.Millisecond)
NextPollAt(t, pa) == t + pa

\* what PollContext may return: a snapshot, or an error of the service or of
\* the transport; context.Canceled only when the context is cancelled
PollOutcomes(c) ==
    {Result(pa, d) : pa \in PollAfterVals, d \in BOOLEAN}
        \cup {Error("QueryError"), Error("TransportError")}
        \cup (IF c THEN {Error("Canceled")} ELSE {})

\* a caller calls q.WaitAndPollContext(ctx)
CallWaitAndPoll ==
    /\ wpc = "idle"
    /\ polls < MaxPolls
    /\ wpc' = "select"
    /\ UNCHANGED <<nextPoll, ret, polls, issuedAt, hasResp, respAt, respPollAfter>>

\* select: case <-time.After(...): fall through to the request.  When the
\* timer and ctx.Done() are both ready, select takes either one.
SelectTimer ==
    /\ wpc = "select"
    /\ TimerFired(now, nextPoll)
    /\ wpc' = "issue"
    /\ UNCHANGED <<nextPoll, ret, polls, issuedAt, hasResp, respAt, respPollAfter>>

\* select: case <-ctx.Done(): return api.QueryResult{}, ctx.Err()
SelectCancelMissing == FALSE
SelectCancel ==
    /\ wpc = "select"
    /\ cancelled
    /\ wpc' = "idle"
    /\ ret' = Error("Canceled")
    /\ UNCHANGED <<nextPoll, polls, issuedAt, hasResp, respAt, respPollAfter>>

\* q.queryJobs.PollContext(ctx, q.repository, q.id): the request goes out
IssuePoll ==
    /\ wpc = "issue"
    /\ wpc' = "inflight"
    /\ polls' = polls + 1
    /\ issuedAt' = now
    /\ UNCHANGED <<nextPoll, ret, hasResp, respAt, respPollAfter>>

\* PollContext returns; on success nextPoll is advanced by the advised delay
PollReturns ==
    /\ wpc = "inflight"
    /\ \E r \in PollOutcomes(cancelled) :
        /\ ret' = r
        /\ IF r.kind = "error"
             THEN UNCHANGED <<nextPoll, hasResp, respAt, respPollAfter>>
             ELSE /\ nextPoll' = NextPollAt(now, r.pollAfter)
                  /\ hasResp' = TRUE
                  /\ respAt' = now
                  /\ respPollAfter' = r.pollAfter
    /\ wpc' = "idle"
    /\ UNCHANGED <<polls, issuedAt>>

(***************************************************************************)
(* eventListPrinter.print                                                  *)
(***************************************************************************)
\* the @id and @timestamp fields an event may carry: absent (the lookup
\* yields nil and the type assertion fails) or of the expected type
IdStrings == {"e1", "e2"}
IdVals    == {Absent} \cup {Str(s) : s \in IdStrings}
TsVals    == {Absent, Num(10), Num(20)}
EventDom  == [id : IdVals, ts : TsVals]

SeqsUpTo(S, n) == UNION {[1..k -> S] : k \in 0..n}
EventLists     == SeqsUpTo(EventDom, MaxEvents)

\* the less function given to sort.Slice
LessMissingLast(ei, ej) ==
    LET hasTsI == IsFloat64(ei.ts)
        hasTsJ == IsFloat64(ej.ts)
    IN  CASE hasTsI /\ hasTsJ -> ei.ts.n < ej.ts.n
          [] ~hasTsI          -> FALSE
          [] ~hasTsJ          -> TRUE
          [] OTHER            -> FALSE
LessDescending(ei, ej) ==
    LET hasTsI == IsFloat64(ei.ts)
        hasTsJ == IsFloat64(ej.ts)
    IN  CASE hasTsI /\ hasTsJ -> ei.ts.n > ej.ts.n
          [] ~hasTsJ          -> FALSE
          [] ~hasTsI          -> TRUE
          [] OTHER            -> FALSE
Less(ei, ej) ==
    LET hasTsI == IsFloat64(ei.ts)
        hasTsJ == IsFloat64(ej.ts)
    IN  CASE hasTsI /\ hasTsJ -> ei.ts.n < ej.ts.n
          [] ~hasTsJ          -> FALSE
          [] ~hasTsI          -> TRUE
          [] OTHER            -> FALSE

\* sort.Slice(result.Events, less): the slice reordered so that no element
\* is less than one before it.  sort.Slice does not promise to keep the
\* order of elements that compare equal, so every such order is an outcome
\* (Go's pdqsort is an insertion sort up to 12 elements and partitions by
\* swapping above that; the lists here stand for snapshots of any length).
Without(events, i) == [k \in 1..(Len(events) - 1) |-> IF k < i THEN events[k] ELSE events[k + 1]]

RECURSIVE SortSlice(_)
SortSlice(events) ==
    IF events = <<>> THEN {<<>>}
    ELSE UNION {
           {<<events[i]>> \o rest : rest \in SortSlice(Without(events, i))} :
              i \in {k \in 1..Len(events) :
                       \A j \in 1..Len(events) : ~Less(events[j], events[k])}}

\* one iteration of the loop over result.Events: st is [out, printed]
EmitStepNoRecord(st, e) ==
    LET hasID == IsString(e.id)
    IN  IF hasID /\ e.id.s \notin st.printed
          THEN [out |-> Append(st.out, e), printed |-> st.printed]
          ELSE IF ~hasID
                 THEN [out |-> Append(st.out, e), printed |-> st.printed]
                 ELSE st
EmitStepDropNoId(st, e) ==
    LET hasID == IsString(e.id)
    IN  IF hasID /\ e.id.s \notin st.printed
          THEN [out |-> Append(st.out, e), printed |-> st.printed \cup {e.id.s}]
          ELSE st
EmitStepForgets(st, e) ==
    LET hasID == IsString(e.id)
    IN  IF hasID /\ e.id.s \notin st.printed
          THEN [out |-> Append(st.out, e), printed |-> {e.id.s}]
          ELSE IF ~hasID
                 THEN [out |-> Append(st.out, e), printed |-> st.printed]
                 ELSE st
EmitStep(st, e) ==
    LET hasID == IsString(e.id)
    IN  IF hasID /\ e.id.s \notin st.printed
          THEN [out |-> Append(st.out, e), printed |-> st.printed \cup {e.id.s}]
          ELSE IF ~hasID
                 THEN [out |-> Append(st.out, e), printed |-> st.printed]
                 ELSE st

RECURSIVE EmitLoop(_, _)
EmitLoop(st, events) ==
    IF events = <<>> THEN st
    ELSE EmitLoop(EmitStep(st, Head(events)), Tail(events))

CountId(s, out) == Cardinality({i \in 1..Len(out) : out[i].id = Str(s)})

\* p.print(result)
\* p.print(result), for the events of result
PrintEventsOf(events) ==
    \E sorted \in SortSlice(events) :
      LET st == EmitLoop([out |-> <<>>, printed |-> printedIds], sorted)
      IN  /\ lastIn' = events
          /\ lastOut' = st.out
          /\ printedIds' = st.printed
          /\ idCount' = [s \in IdStrings |-> idCount[s] + CountId(s, st.out)]

PrintEvents == \E events \in EventLists : PrintEventsOf(events)

(***************************************************************************)
(* aggregatePrinter.print                                                  *)
(***************************************************************************)
Keys       == {"a", "b"}
\* a row maps each field name to its value, Absent for a field it lacks
RowDom     == [a : {Absent, Num(7)}, b : {Absent, Str("x")}]
RowLists   == SeqsUpTo(RowDom, MaxRows)
FieldOrders == {<<>>, <<"a">>, <<"b", "a">>}
AggSnapshots == [fieldOrder : FieldOrders, events : RowLists]

RowKeys(e) == {k \in Keys : e[k] # Absent}

Orderings(S) ==
    {o \in [1..Cardinality(S) -> S] : \A i, j \in 1..Cardinality(S) : i # j => o[i] # o[j]}

\* f := p.columns
StartColumnsEmpty(cols) == <<>>
StartColumns(cols) == cols

\* m := map[string]bool{}
SeenAtStart(cols) == {}

\* for _, e := range result.Events { for k := range e { if !m[k] { ... } } }
\* a Go map is ranged over in an unspecified order: every order of the new
\* keys of a row is an outcome
RECURSIVE DeriveColumns(_, _, _)
DeriveColumns(f, m, events) ==
    IF events = <<>> THEN {f}
    ELSE LET new == RowKeys(Head(events)) \ m
         IN  UNION {DeriveColumns(f \o o, m \cup new, Tail(events)) : o \in Orderings(new)}

\* the column list after the first part of print
ColumnOutcomes(cols, snap) ==
    IF Len(snap.fieldOrder) > 0
      THEN {snap.fieldOrder}
      ELSE DeriveColumns(StartColumns(cols), SeenAtStart(cols), snap.events)

\* fmt.Sprint(v) of a cell; a float64 prints in its shortest form
Digit == [d \in 0..9 |-> CASE d = 0 -> "0" [] d = 1 -> "1" [] d = 2 -> "2" [] d = 3 -> "3"
                           [] d = 4 -> "4" [] d = 5 -> "5" [] d = 6 -> "6" [] d = 7 -> "7"
                           [] d = 8 -> "8" [] d = 9 -> "9"]
RECURSIVE Decimal(_)
Decimal(n) == IF n < 10 THEN Digit[n] ELSE Decimal(n \div 10) \o Digit[n % 10]

Sprint(v) ==
    CASE v.t = "str"    -> v.s
      [] v.t = "num"    -> Decimal(v.n)
      [] v.t = "absent" -> "<nil>"

\* fmt.Fprintln(p.w, v)
Sprintln(v) == Sprint(v) \o "\n"

\* len(p.columns) == 1 && len(result.Events) == 1
IsSingleCellAnyRows(cols, events) == Len(cols) = 1 /\ Len(events) >= 1
IsSingleCell(cols, events) == Len(cols) = 1 /\ Len(events) = 1

\* the row appended to the table for event e
TableRow(cols, e) ==
    [j \in 1..Len(cols) |-> IF e[cols[j]] # Absent THEN Sprint(e[cols[j]]) ELSE ""]

Text(s)            == [t |-> "text", s |-> s]
Table(cols, events) ==
    [t |-> "table", header |-> cols,
     rows |-> [i \in 1..Len(events) |-> TableRow(cols, events[i])]]

\* what print writes to p.w once the columns are settled
Render(cols, events) ==
    IF Len(cols) = 0 THEN <<>>
    ELSE IF IsSingleCell(cols, events)
           THEN <<Text(Sprintln(events[1][cols[1]]))>>
           ELSE <<Table(cols, events), Text("\n")>>

\* p.print(result)
\* p.print(result), for the field order and the rows of result
PrintSnapshot(snap) ==
    \E cols \in ColumnOutcomes(columns, snap) :
        /\ columns' = cols
        /\ prevColumns' = columns
        /\ aggIn' = snap
        /\ aggOut' = Render(cols, snap.events)
        /\ aggCalls' = aggCalls + 1
        /\ sawFieldOrder' = (sawFieldOrder \/ Len(snap.fieldOrder) > 0)

PrintAggregate ==
    /\ aggCalls < MaxAggCalls
    /\ \E snap \in AggSnapshots : PrintSnapshot(snap)

(***************************************************************************)
(* queryResultProgressBar and printQueryResultProgressJson                 *)
(***************************************************************************)
\* a float64: NaN or a number.  The numbers of the model are integers, and
\* the quotients taken below are exact
FNaN   == [nan |-> TRUE]
F(x)   == [nan |-> FALSE, v |-> x]

\* the Metadata fields (and Done) that the progress reporters read
TimeMillisVals == {0, 2, 4}
QuantityVals   == {0, 1}
CountVals      == {1}
Metadatas ==
    [TimeMillis : TimeMillisVals, ProcessedEvents : QuantityVals,
     ProcessedBytes : QuantityVals, EventCount : CountVals,
     WorkDone : CountVals, TotalWork : CountVals, Done : BOOLEAN]
NoMetadata == [none |-> TRUE]
NoJson     == [none |-> TRUE]

\* newQueryResultProgressBar: b.epsValue = math.NaN(), b.bpsValue = math.NaN()
InitialRate == FNaN

\* float64(quantity) / float64(TimeMillis) * 1000
PerSecond(quantity, timeMillis) == (quantity * 1000) \div timeMillis

\* Update: the new value of epsValue or bpsValue
UpdatedRate(old, quantity, timeMillis) ==
    IF timeMillis > 0 THEN F(PerSecond(quantity, timeMillis)) ELSE old

\* prompt.AddSISuffix(v, binary), for the values below the first prefix
AddSISuffix(v, binary) == IF v < 1000 THEN <<v, "">> ELSE <<v \div 1000, "k">>

\* fmt.Sprintf("%.1f", v) of a whole number
OneDecimal(v) == Decimal(v) \o ".0"

\* additionalInfoEps, additionalInfoBps as functions of the field they read
InfoEps(eps) ==
    IF ~eps.nan
      THEN LET p == AddSISuffix(eps.v, FALSE)
           IN  OneDecimal(p[1]) \o " " \o p[2] \o " events/s"
      ELSE ""
InfoBps(bps) ==
    IF ~bps.nan
      THEN LET p == AddSISuffix(bps.v, TRUE)
           IN  OneDecimal(p[1]) \o " " \o p[2] \o "B/s"
      ELSE ""
additionalInfoEps == InfoEps(epsValue)
additionalInfoBps == InfoBps(bpsValue)

\* b.Update(result), for the metadata md of result
UpdateWith(md) ==
    /\ epsValue' = UpdatedRate(epsValue, md.ProcessedEvents, md.TimeMillis)
    /\ bpsValue' = UpdatedRate(bpsValue, md.ProcessedBytes, md.TimeMillis)
    /\ hits' = md.EventCount
    /\ barSet' = <<md.WorkDone, md.TotalWork>>
    /\ lastUpd' = md

Update ==
    /\ \E md \in Metadatas : UpdateWith(md)
    /\ UNCHANGED <<jsonIn, jsonOut>>

\* printQueryResultProgressJson: var epsValue, bpsValue float64 start at 0
\* and are assigned only when TimeMillis > 0
JsonRateUnguarded(quantity, timeMillis) ==
    (quantity * 1000) \div (IF timeMillis > 0 THEN timeMillis ELSE 1)
JsonRate(quantity, timeMillis) ==
    IF timeMillis > 0 THEN PerSecond(quantity, timeMillis) ELSE 0

\* json.Marshal of a bool
JsonBool(b) == IF b THEN "true" ELSE "false"

\* the fields of queryResultProgressJson that depend on the snapshot, as
\* json.Marshal renders them (no field has omitempty)
ProgressJson(md) ==
    [timeMillis |-> Decimal(md.TimeMillis),
     epsValue   |-> Decimal(JsonRate(md.ProcessedEvents, md.TimeMillis)),
     bpsValue   |-> Decimal(JsonRate(md.ProcessedBytes, md.TimeMillis)),
     eventCount |-> Decimal(md.EventCount),
     totalWork  |-> Decimal(md.TotalWork),
     workDone   |-> Decimal(md.WorkDone),
     done       |-> JsonBool(md.Done)]

PrintJsonWith(md) ==
    /\ jsonIn' = md
    /\ jsonOut' = ProgressJson(md)

printQueryResultProgressJson ==
    /\ \E md \in Metadatas : PrintJsonWith(md)
    /\ UNCHANGED <<epsValue, bpsValue, hits, barSet, lastUpd>>

(***************************************************************************)
(* newSearchCmd: Run                                                       *)
(***************************************************************************)
\* an error value: the string names its dynamic type or identity
Unset   == "unset"
NoErr   == "nil"
Running == -1      \* no exit status yet

\* what Create and Delete may return (internal/api is not under src/);
\* Create takes no context, so it is never context.Canceled
CreateOutcomes == {NoErr, "QueryError", "TransportError"}
DeleteOutcomes == {NoErr, "TransportError"}

\* the parts of a snapshot that Run's callees read, drawn when they are read
SessMetadatas ==
    {md \in Metadatas : md.ProcessedEvents = 1 /\ md.ProcessedBytes = 1
                            /\ md.TimeMillis \in {0, 2}}
SessEventLists == {<<>>, <<[id |-> Str("e1"), ts |-> Num(10)]>>}
SessAggSnapshots ==
    {[fieldOrder |-> <<"a">>, events |-> <<[a |-> Num(7), b |-> Absent]>>]}
PrinterKinds == {"events", "aggregate"}

\* for !result.Done
LoopContinuesAlways(r) == TRUE
LoopContinues(r) == ~r.done

\* if live { for { ... } }
LiveLoopsNever(l) == FALSE
LiveLoops(l) == l

\* `if progress != nil { progress.Update(result) }` and
\* `if jsonProgress { ... fmt.Printf }`: the calls made so far
FedNever(active, count) == count
Fed(active, count) == IF active THEN count + 1 ELSE count

\* where Run goes when WaitAndPollContext returned an error: return err
OnPollErrorRetry(at) == at
OnPollError(at) == "delete"

\* defer func(id string) { _ = client.QueryJobs().Delete(repository, id) }(id)
LambdaResultOfDelete(e, d) == IF d = NoErr THEN e ELSE d
LambdaResult(e, d) == e

\* if err == context.Canceled { err = nil }
AfterCancelCheckKeeps(e) == e
AfterCancelCheck(e) == IF e = "Canceled" THEN NoErr ELSE e

\* queryError, ok := err.(api.QueryError)
IsQueryErrorNever(e) == FALSE
IsQueryError(e) == e = "QueryError"

\* exitOnError(cmd, err, "error running search"): prints and exits with
\* status 1 when err is not nil, returns otherwise
ExitOnError(e) ==
    IF e = NoErr THEN [status |-> 0, stderr |-> "none"]
                 ELSE [status |-> 1, stderr |-> "generic"]

\* whether the defer statement is reached after Create returned o
DeferReachedAlways(o) == TRUE
DeferReached(o) == o = NoErr

\* the printer Run constructs for a first snapshot with IsAggregate = ia
PrinterFor(ia) == IF ia THEN "aggregate" ELSE "events"

\* the printer a printer.print(result) call goes to: the variable `printer`,
\* whatever result.Metadata.IsAggregate (ia) is
TargetBySnapshot(p, ia) == PrinterFor(ia)
Target(p, ia) == p

\* `if !jsonProgress { printer.print(result) }` after the first loop
PrintsDataNever(j) == FALSE
PrintsData(j) == ~j

\* the @id strings of the events of a snapshot
IdsOf(events) ==
    {events[i].id.s : i \in {k \in 1..Len(events) : IsString(events[k].id)}}

\* time passes while the select waits for time.After.  The session reads the
\* clock only in the select and in NextPollAt, so time that passes at any
\* other moment is, to the session, a shorter advised delay (PollAfter
\* ranges down to 0)
TimerWait ==
    /\ wpc = "select"
    /\ ~TimerFired(now, nextPoll)
    /\ Tick

\* Run up to the lambda: the flags are read; jsonProgress sets noProgress
Run ==
    /\ spc = "start"
    /\ \E l \in BOOLEAN, j \in BOOLEAN, n \in BOOLEAN :
        /\ live' = l
        /\ jsonProgress' = j
        /\ noProgress' = (n \/ j)
    /\ spc' = "create"
    /\ UNCHANGED <<created, createRes, progress, finished, printer, returned, err,
                   creates, deletes, deleteRes, okPre, okLive, updates,
                   jsonRecords, prints, printedNotDone, sawDone, pollsAtDone,
                   pollsAtErr, exitStatus, stderr, snapVars, pollsAtDelete>>

\* client.QueryJobs().Create(...); on an error the lambda returns it before
\* the defer statement is reached
Create ==
    /\ spc = "create"
    /\ creates' = creates + 1
    /\ \E o \in CreateOutcomes :
        /\ createRes' = o
        /\ IF o = NoErr
             THEN /\ created' = TRUE
                  /\ progress' = ~noProgress
                  /\ spc' = "poll1"
                  /\ UNCHANGED <<returned, err, pollsAtErr>>
             ELSE /\ returned' = o
                  /\ err' = o
                  /\ pollsAtErr' = polls
                  /\ spc' = IF DeferReached(o) THEN "delete" ELSE "exit"
                  /\ UNCHANGED <<created, progress>>
    /\ UNCHANGED <<live, jsonProgress, noProgress, finished, printer, deletes,
                   deleteRes, okPre, okLive, updates, jsonRecords, prints,
                   printedNotDone, sawDone, pollsAtDone, exitStatus, stderr,
                   snapVars, pollsAtDelete>>

\* the three calls poller.WaitAndPollContext(ctx) of the lambda
CallSites == {"poll1", "pollLoop", "pollLive"}
InCall(at) ==
    CASE at = "poll1"    -> "in1"
      [] at = "pollLoop" -> "inLoop"
      [] at = "pollLive" -> "inLive"

SessCall ==
    /\ spc \in CallSites
    /\ CallWaitAndPoll
    /\ spc' = InCall(spc)
    /\ UNCHANGED <<live, jsonProgress, noProgress, created, createRes, progress,
                   finished, printer, returned, err, creates, deletes, deleteRes,
                   okPre, okLive, updates, jsonRecords, prints, printedNotDone,
                   sawDone, pollsAtDone, pollsAtErr, exitStatus, stderr,
                   snapVars, pollsAtDelete>>

\* `if err != nil { return err }` after a WaitAndPollContext call at `at`
ReturnPollError(at) ==
    /\ spc' = OnPollError(at)
    /\ returned' = ret.err
    /\ pollsAtErr' = polls
    /\ UNCHANGED <<printer, okPre, okLive, prints, printedNotDone, sawDone,
                   pollsAtDone, snapVars>>

\* a snapshot has arrived with IsAggregate = ia and Events = events: note
\* the first Done one and the identifiers it carries.  The identifiers are
\* due for the deduplicator when the snapshot is one that Run prints: a Done
\* snapshot of a session that prints data, or a snapshot of the live loop
NoteSnapshot(ia, events, inLive) ==
    /\ sawDone' = (sawDone \/ ret.done)
    /\ pollsAtDone' = IF ~sawDone /\ ret.done THEN polls ELSE pollsAtDone
    /\ resAgg' = ia
    /\ resEvents' = events
    /\ polledIds' = polledIds \cup IdsOf(events)
    /\ dueIds' = IF inLive \/ (ret.done /\ ~jsonProgress)
                   THEN dueIds \cup IdsOf(events)
                   ELSE dueIds

\* printer.print(result), for a result with IsAggregate = ia and
\* Events = events
PrintResult(ia, events) ==
    /\ prints' = prints + 1
    /\ printedNotDone' = (printedNotDone \/ ~ret.done)
    /\ lastTarget' = Target(printer, ia)
    /\ printedOther' = (printedOther \/ ia # firstAgg)
    /\ IF Target(printer, ia) = "aggregate"
         THEN (\E snap \in SessAggSnapshots : PrintSnapshot(snap))
                /\ UNCHANGED eventVars
         ELSE PrintEventsOf(events) /\ UNCHANGED aggVars

\* the first WaitAndPollContext has returned: the error return, or the
\* choice of the printer from result.Metadata.IsAggregate
AfterFirstPoll ==
    /\ spc = "in1"
    /\ wpc = "idle"
    /\ IF ret.kind = "error"
         THEN ReturnPollError("poll1")
         ELSE /\ \E ia \in BOOLEAN, events \in SessEventLists :
                   /\ NoteSnapshot(ia, events, FALSE)
                   /\ firstAgg' = ia
                   /\ printer' = PrinterFor(ia)
              /\ okPre' = okPre + 1
              /\ spc' = "test"
              /\ UNCHANGED <<returned, pollsAtErr, okLive, prints, printedNotDone,
                             lastTarget, printedOther>>
    /\ UNCHANGED <<live, jsonProgress, noProgress, created, createRes, progress,
                   finished, err, creates, deletes, deleteRes, updates,
                   jsonRecords, exitStatus, stderr, pollsAtDelete>>

\* one evaluation of `for !result.Done` and what follows it up to the next
\* call or return.  While the snapshot is not Done: the loop body up to its
\* WaitAndPollContext call.  Once it is Done: the final progress output, the
\* data output unless jsonProgress, then the live loop or `return nil`
LoopTest ==
    /\ spc = "test"
    /\ updates' = Fed(progress, updates)
    /\ jsonRecords' = Fed(jsonProgress, jsonRecords)
    /\ \E md \in SessMetadatas :
        /\ md.Done = ret.done
        /\ IF progress
             THEN UpdateWith(md)
             ELSE UNCHANGED <<epsValue, bpsValue, hits, barSet, lastUpd>>
        /\ IF jsonProgress
             THEN PrintJsonWith(md)
             ELSE UNCHANGED <<jsonIn, jsonOut>>
    /\ IF LoopContinues(ret)
         THEN /\ spc' = "pollLoop"
              /\ UNCHANGED <<finished, prints, printedNotDone, returned,
                             lastTarget, printedOther>>
              /\ UNCHANGED <<eventVars, aggVars>>
         ELSE /\ finished' = progress
              /\ IF PrintsData(jsonProgress)
                   THEN PrintResult(resAgg, resEvents)
                   ELSE UNCHANGED <<prints, printedNotDone, lastTarget,
                                    printedOther, eventVars, aggVars>>
              /\ IF LiveLoops(live)
                   THEN spc' = "pollLive" /\ UNCHANGED returned
                   ELSE spc' = "delete" /\ returned' = NoErr
    /\ UNCHANGED <<live, jsonProgress, noProgress, created, createRes, progress,
                   printer, err, creates, deletes, deleteRes, okPre, okLive,
                   sawDone, pollsAtDone, pollsAtErr, exitStatus, stderr, resAgg,
                   resEvents, firstAgg, polledIds, dueIds, pollsAtDelete>>

\* the WaitAndPollContext call of the `for !result.Done` loop has returned
AfterLoopPoll ==
    /\ spc = "inLoop"
    /\ wpc = "idle"
    /\ IF ret.kind = "error"
         THEN ReturnPollError("pollLoop")
         ELSE /\ \E ia \in BOOLEAN, events \in SessEventLists :
                   NoteSnapshot(ia, events, FALSE)
              /\ okPre' = okPre + 1
              /\ spc' = "test"
              /\ UNCHANGED <<returned, pollsAtErr, printer, okLive, prints,
                             printedNotDone, firstAgg, lastTarget, printedOther>>
    /\ UNCHANGED <<live, jsonProgress, noProgress, created, createRes, progress,
                   finished, err, creates, deletes, deleteRes, updates,
                   jsonRecords, exitStatus, stderr, pollsAtDelete>>

\* the WaitAndPollContext call of the live loop has returned: the error
\* return, or printer.print(result) and the next iteration
AfterLivePoll ==
    /\ spc = "inLive"
    /\ wpc = "idle"
    /\ IF ret.kind = "error"
         THEN ReturnPollError("pollLive") /\ UNCHANGED <<eventVars, aggVars>>
         ELSE /\ \E ia \in BOOLEAN, events \in SessEventLists :
                   /\ NoteSnapshot(ia, events, TRUE)
                   /\ PrintResult(ia, events)
              /\ okLive' = okLive + 1
              /\ spc' = "pollLive"
              /\ UNCHANGED <<returned, pollsAtErr, printer, okPre, firstAgg>>
    /\ UNCHANGED <<live, jsonProgress, noProgress, created, createRes, progress,
                   finished, err, creates, deletes, deleteRes, updates,
                   jsonRecords, exitStatus, stderr, pollsAtDelete>>

\* the deferred function runs as the lambda returns: Delete is requested
\* and what it returns is discarded
Delete ==
    /\ spc = "delete"
    /\ deletes' = deletes + 1
    /\ pollsAtDelete' = polls
    /\ \E d \in DeleteOutcomes :
        /\ deleteRes' = d
        /\ err' = LambdaResult(returned, d)
    /\ spc' = "exit"
    /\ UNCHANGED <<live, jsonProgress, noProgress, created, createRes, progress,
                   finished, printer, returned, creates, okPre, okLive, updates,
                   jsonRecords, prints, printedNotDone, sawDone, pollsAtDone,
                   pollsAtErr, exitStatus, stderr, snapVars>>

\* Run after the lambda: cancellation is no error, a query error has its
\* own message and os.Exit(1), anything else goes to exitOnError
Exit ==
    /\ spc = "exit"
    /\ LET e == AfterCancelCheck(err)
       IN  IF IsQueryError(e)
             THEN exitStatus' = 1 /\ stderr' = "query"
             ELSE /\ exitStatus' = ExitOnError(e).status
                  /\ stderr' = ExitOnError(e).stderr
    /\ spc' = "done"
    /\ UNCHANGED <<live, jsonProgress, noProgress, created, createRes, progress,
                   finished, printer, returned, err, creates, deletes, deleteRes,
                   okPre, okLive, updates, jsonRecords, prints, printedNotDone,
                   sawDone, pollsAtDone, pollsAtErr, snapVars, pollsAtDelete>>

(***************************************************************************)
(* profiles add: newProfilesAddCmd and saveConfig                          *)
(***************************************************************************)
ProfileNames == {"p1", "p2", "p3"}

\* how a file system call ends: it succeeds, fails because a path element
\* does not exist (os.IsNotExist), or fails otherwise (permissions, a full
\* disk, ...)
WriteOutcomes == {"ok", "notExist", "failed"}
NoWrite == [none |-> TRUE]

\* the three calls saveConfig may make: viper.WriteConfig, os.MkdirAll,
\* viper.WriteConfigAs
FsOutcomes ==
    [write : WriteOutcomes, mkdir : {"ok", "failed"}, writeAs : {"ok", "failed"}]

\* os.IsNotExist(writeErr)
IsNotExist(o) == o = "notExist"

\* saveConfig: the error it returns.  A failed WriteConfig whose error is
\* not os.IsNotExist falls through both if statements to `return nil`
SaveResult(fs) ==
    IF fs.write # "ok"
      THEN IF IsNotExist(fs.write)
             THEN IF fs.mkdir # "ok" THEN "error creating config directory"
                  ELSE IF fs.writeAs # "ok" THEN "error writing config file"
                  ELSE NoErr
             ELSE NoErr
      ELSE NoErr

\* whether one of saveConfig's writes put the configuration on disk
Written(fs) ==
    \/ fs.write = "ok"
    \/ (IsNotExist(fs.write) /\ fs.mkdir = "ok" /\ fs.writeAs = "ok")

\* humioctl profiles add <profile>: addAccount, saveConfig, exitOnError,
\* then the success message
ProfilesAdd ==
    \E name \in ProfileNames, fs \in FsOutcomes :
        /\ lastProfile' = name
        /\ lastWrite' = fs
        /\ saveRet' = SaveResult(fs)
        /\ persisted' = Written(fs)
        /\ disk' = IF Written(fs) THEN disk \cup {name} ELSE disk
        /\ addMsg' = IF ExitOnError(SaveResult(fs)).status = 0
                       THEN "Successfully added profile"
                       ELSE "Error saving config"

(***************************************************************************)
(* newEventListPrinter, initPrintFunc and printEventFunc                   *)
(*                                                                         *)
(* A string is a sequence of one-character strings.  The templates are     *)
(* written in the characters that have a meaning to the compiler or to     *)
(* fmt.Fprintf: the braces, the colon, a digit, the per cent sign, and two *)
(* letters.  The letters are also the field names of the events: "s" is a  *)
(* field without a field printer, "t" has the part of @timestamp, the one  *)
(* key of fieldPrinters.  What is written is a sequence of tokens: the     *)
(* characters of the format string, the field values, and the %!...        *)
(* diagnostics of package fmt.                                             *)
(***************************************************************************)
TemplateChars == {"{", "}", ":", "2", "%", "s", "t"}
Templates     == SeqsUpTo(TemplateChars, MaxTemplate)

\* the events given to printEventFunc
FmtEvents  == {[s |-> Str("V"), t |-> Num(10)], [s |-> Absent, t |-> Str("V")]}
NoFmtEvent == [s |-> Absent, t |-> Absent]

\* the first "}" after position i, 0 if there is none
FirstClose(t, i) ==
    IF \E j \in (i + 1)..Len(t) : t[j] = "}"
      THEN CHOOSE j \in (i + 1)..Len(t) :
             t[j] = "}" /\ \A k \in (i + 1)..(j - 1) : t[k] # "}"
      ELSE 0

\* the leftmost non-overlapping matches of (\{[^\}]+\}) from position i on,
\* and the characters between them
RECURSIVE Segments(_, _)
Segments(t, i) ==
    IF i > Len(t) THEN <<>>
    ELSE LET j == FirstClose(t, i)
         IN  IF t[i] = "{" /\ j > i + 1
               THEN <<[ref |-> TRUE, body |-> SubSeq(t, i + 1, j - 1)]>>
                      \o Segments(t, j + 1)
               ELSE <<[ref |-> FALSE, body |-> <<t[i]>>]>> \o Segments(t, i + 1)

\* strings.Contains(field, ":") and strings.SplitN(field, ":", 2)
Contains(body, c) == \E i \in 1..Len(body) : body[i] = c
FirstIndex(body, c) == CHOOSE i \in 1..Len(body) :
                          body[i] = c /\ \A k \in 1..(i - 1) : body[k] # c
FieldOf(body) ==
    IF Contains(body, ":") THEN SubSeq(body, 1, FirstIndex(body, ":") - 1) ELSE body
ArgOf(body) ==
    IF Contains(body, ":")
      THEN SubSeq(body, FirstIndex(body, ":") + 1, Len(body))
      ELSE <<>>

\* re.ReplaceAllStringFunc(fmt, ...): every match becomes "%" + arg + "s"
Slot(body) == <<"%">> \o ArgOf(body) \o <<"s">>

RECURSIVE CompileSegments(_)
CompileSegments(segs) ==
    IF segs = <<>> THEN <<>>
    ELSE (IF Head(segs).ref THEN Slot(Head(segs).body) ELSE Head(segs).body)
           \o CompileSegments(Tail(segs))

RECURSIVE FieldsOfSegments(_)
FieldsOfSegments(segs) ==
    IF segs = <<>> THEN <<>>
    ELSE (IF Head(segs).ref THEN <<FieldOf(Head(segs).body)>> ELSE <<>>)
           \o FieldsOfSegments(Tail(segs))

\* m[f]: the value of field f of the event, nil if it has none
Lookup(m, f) ==
    IF f = <<"s">> THEN m.s ELSE IF f = <<"t">> THEN m.t ELSE Absent

\* time.Unix(sec, msec*1000000).Format(time.RFC3339Nano), in UTC
FormatRFC3339Nano(ms) == "1970-01-01T00:00:00.01Z"

\* the printers of initPrintFunc: the field printer if the field has one
\* and it accepts the value, fmt.Sprint otherwise
HasPrinter(f) == f = <<"t">>
FieldPrinter(f, m) ==
    LET v == Lookup(m, f)
    IN  IF HasPrinter(f) /\ IsFloat64(v) THEN FormatRFC3339Nano(v.n) ELSE Sprint(v)

FmtArgs(fields, m) == [i \in 1..Len(fields) |-> FieldPrinter(fields[i], m)]

\* utf8.RuneCountInString of the values that occur
RuneCount(str) ==
    CASE str = "V" -> 1
      [] str = "10" -> 2
      [] str = "<nil>" -> 5
      [] OTHER -> 23

\* padding of a string to width wid (no minus flag: the padding is on the left)
Pad(wid, str) == [i \in 1..(IF wid > RuneCount(str) THEN wid - RuneCount(str) ELSE 0) |-> " "]

\* parsenum: the digits from position i on; [num, next]
RECURSIVE ParseNum(_, _, _)
ParseNum(f, i, num) ==
    IF i <= Len(f) /\ f[i] = "2"
      THEN ParseNum(f, i + 1, num * 10 + 2)
      ELSE [num |-> num, next |-> i]

\* printArg for a string argument: %s writes it padded; any other verb is a
\* bad verb
PrintArg(arg, verb, wid) ==
    IF verb = "s"
      THEN Pad(wid, arg) \o <<arg>>
      ELSE <<"%!", verb, "(string=">> \o Pad(wid, arg) \o <<arg, ")">>

\* the arguments no directive used
Extra(args, argNum) ==
    IF argNum <= Len(args)
      THEN <<"%!(EXTRA">> \o SubSeq(args, argNum, Len(args)) \o <<")">>
      ELSE <<>>

\* the lower-case verbs of the fast path of doPrintf
SimpleVerbs == {"s", "t"}

\* doPrintf from position i of the format on, argNum being the next argument
RECURSIVE DoPrintf(_, _, _, _)
DoPrintf(f, i, args, argNum) ==
    IF i > Len(f) THEN Extra(args, argNum)
    ELSE IF f[i] # "%" THEN <<f[i]>> \o DoPrintf(f, i + 1, args, argNum)
    ELSE IF i + 1 <= Len(f) /\ f[i + 1] \in SimpleVerbs /\ argNum <= Len(args)
      THEN PrintArg(args[argNum], f[i + 1], 0) \o DoPrintf(f, i + 2, args, argNum + 1)
    ELSE LET w == ParseNum(f, i + 1, 0)
             k == w.next
         IN  IF k > Len(f) THEN <<"%!(NOVERB)">> \o Extra(args, argNum)
             ELSE IF f[k] = "%" THEN <<"%">> \o DoPrintf(f, k + 1, args, argNum)
             ELSE IF argNum > Len(args)
               THEN <<"%!", f[k], "(MISSING)">> \o DoPrintf(f, k + 1, args, argNum)
             ELSE PrintArg(args[argNum], f[k], w.num)
                    \o DoPrintf(f, k + 1, args, argNum + 1)

\* fmt.Fprintf(w, format, a...)
Fprintf(format, args) == DoPrintf(format, 1, args, 1)

\* newEventListPrinter(w, fmt)
NewEventListPrinter ==
    /\ fpc = "new"
    /\ \E t \in Templates :
        /\ template' = t
        /\ efmt' = CompileSegments(Segments(t, 1))
        /\ printFields' = FieldsOfSegments(Segments(t, 1))
    /\ fpc' = "built"
    /\ UNCHANGED <<fmtEvent, line>>

\* p.printEventFunc(w, m)
PrintEventFunc ==
    /\ fpc = "built"
    /\ \E m \in FmtEvents :
        /\ fmtEvent' = m
        /\ line' = Fprintf(efmt \o <<"\n">>, FmtArgs(printFields, m))
    /\ UNCHANGED <<fpc, template, efmt, printFields>>

(***************************************************************************)
(* getSecondsFromQueryStart                                                *)
(*                                                                         *)
(* A query start string is taken apart into what the pattern looks at: its *)
(* leading digits (none, a number strconv.Atoi accepts, or more digits     *)
(* than an int holds), the spaces after them, and the rest, a unit word.   *)
(***************************************************************************)
\* the alternatives of the unit group of relativeTimeStringPattern, in
\* order: `years?` is [pre |-> "year", opt |-> "s"], `y` has no opt
Alternatives == <<
    [pre |-> "year", opt |-> "s"],        [pre |-> "y", opt |-> ""],
    [pre |-> "yr", opt |-> "s"],          [pre |-> "quarter", opt |-> "s"],
    [pre |-> "q", opt |-> ""],            [pre |-> "qtr", opt |-> "s"],
    [pre |-> "month", opt |-> "s"],       [pre |-> "mon", opt |-> ""],
    [pre |-> "week", opt |-> "s"],        [pre |-> "w", opt |-> ""],
    [pre |-> "day", opt |-> "s"],         [pre |-> "d", opt |-> ""],
    [pre |-> "hour", opt |-> "s"],        [pre |-> "h", opt |-> "r"],
    [pre |-> "hrs", opt |-> ""],          [pre |-> "minute", opt |-> "s"],
    [pre |-> "m", opt |-> ""],            [pre |-> "min", opt |-> ""],
    [pre |-> "second", opt |-> "s"],      [pre |-> "s", opt |-> ""],
    [pre |-> "sec", opt |-> "s"],         [pre |-> "millisecond", opt |-> "s"],
    [pre |-> "milli", opt |-> ""],        [pre |-> "ms", opt |-> ""] >>

\* the unit words tried: every alternative with and without its optional
\* letter and with an "s" added, and the empty word
UnitWords ==
    {""} \cup UNION {{Alternatives[i].pre,
                      Alternatives[i].pre \o Alternatives[i].opt,
                      Alternatives[i].pre \o "s"} : i \in 1..Len(Alternatives)}

\* the numbers written in the digits
Counts == {0, 1, 61, 999, 1000}

\* the units of milliseconds
IsMilli(unit) == unit \in {"milliseconds", "millisecond", "milli", "ms"}

\* the seconds of the longest unit.  The numbers above what can be
\* multiplied by it within the integers of the model (32 bits) are tried
\* with the millisecond units only
SecondsPerYear == 60 * 60 * 24 * 365
InRange(q) == IsMilli(q.unit) \/ q.n <= 2147483647 \div SecondsPerYear

QueryStarts ==
    {q \in [digits : {"none", "int", "huge"}, n : Counts, sp : 0..2, unit : UnitWords] :
        /\ q.digits # "int" => q.n = 0
        /\ InRange(q)}

\* relativeTimeStringPattern.FindStringSubmatch(queryStart) finds a match:
\* one digit or more, at most one space, one of the alternatives, the end
MatchesAlternative(a, w) == w = a.pre \/ (a.opt # "" /\ w = a.pre \o a.opt)
Matches(q) ==
    /\ q.digits # "none"
    /\ q.sp <= 1
    /\ \E i \in 1..Len(Alternatives) : MatchesAlternative(Alternatives[i], q.unit)

\* containsString(strings, s)
containsString(strings, s) == \E i \in 1..Len(strings) : strings[i] = s

HourSpellings == <<"hours", "hour", "hr", "h">>

NoQueryStart == [digits |-> "none", n |-> 0, sp |-> 0, unit |-> ""]
NoSeconds == [n |-> 0, err |-> "unset"]
Seconds(n) == [n |-> n, err |-> NoErr]
SecondsError(e) == [n |-> 0, err |-> e]

getSecondsFromQueryStart(q) ==
    IF ~Matches(q) THEN SecondsError("cannot parse query start")
    ELSE IF q.digits = "huge" THEN SecondsError("value out of range")
    ELSE LET n == q.n
             unit == q.unit
         IN  IF containsString(<<"milliseconds", "millisecond", "milli", "ms">>, unit)
               THEN IF n < 1000
                      THEN SecondsError("queryStart must be larger than 1000 milliseconds")
                      ELSE Seconds(n \div 1000)
             ELSE IF containsString(<<"seconds", "second", "secs", "sec", "s">>, unit)
               THEN Seconds(n)
             ELSE IF containsString(<<"minutes", "minute", "min", "m">>, unit)
               THEN Seconds(n * 60)
             ELSE IF containsString(HourSpellings, unit)
               THEN Seconds(n * 60 * 60)
             ELSE IF containsString(<<"days", "day", "d">>, unit)
               THEN Seconds(n * 60 * 60 * 24)
             ELSE IF containsString(<<"weeks", "week", "w">>, unit)
               THEN Seconds(n * 60 * 60 * 24 * 7)
             ELSE IF containsString(<<"months", "month", "mon">>, unit)
               THEN Seconds(n * 60 * 60 * 24 * 30)
             ELSE IF containsString(<<"quarters", "quarter", "qtrs", "qtr", "q">>, unit)
               THEN Seconds(n * 60 * 60 * 24 * 90)
             ELSE IF containsString(<<"years", "year", "yr", "yrs", "y">>, unit)
               THEN Seconds(n * 60 * 60 * 24 * 365)
             ELSE SecondsError("unexpected matching")

\* one call of getSecondsFromQueryStart
GetSeconds ==
    /\ \E q \in QueryStarts :
        /\ qsIn' = q
        /\ qsOut' = getSecondsFromQueryStart(q)
    /\ UNCHANGED <<mpc, alertNo, legacyAlert, secs, interval, throttle, requests,
                   createErr, deleteErr, legacyExists, migResult>>

(***************************************************************************)
(* migrateLegacyAlert                                                      *)
(***************************************************************************)
\* getValidSearchIntervalSeconds()
ValidSearchIntervalSeconds ==
    [i \in 1..80 |-> i * 60]
      \o [k \in 1..50 |-> (80 + 2 * k) * 60]
      \o [k \in 1..21 |-> (k + 3) * 60 * 60]

absDiff(x, y) == IF x < y THEN y - x ELSE x - y

\* getClosest(n, input): the first element at the least distance from n
getClosest(n, input) ==
    LET curr == CHOOSE c \in 1..Len(input) :
                   /\ \A i \in 1..Len(input) : absDiff(n, input[c]) <= absDiff(n, input[i])
                   /\ \A i \in 1..(c - 1) : absDiff(n, input[i]) > absDiff(n, input[c])
    IN  input[curr]

\* legacyAlert.ThrottleTimeMillis of the alerts tried
ThrottleMillis == {0, 30000, 61000, 3600000, 90000000}

\* legacyAlert.QueryStart of the alerts tried: "1h", "61s", "999ms", "1 hrs",
\* "1000 ms", "1d", and one the pattern does not match
MigratedQueryStarts ==
    {[digits |-> "int", n |-> 1, sp |-> 0, unit |-> "h"],
     [digits |-> "int", n |-> 61, sp |-> 0, unit |-> "s"],
     [digits |-> "int", n |-> 999, sp |-> 0, unit |-> "ms"],
     [digits |-> "int", n |-> 1, sp |-> 1, unit |-> "hrs"],
     [digits |-> "int", n |-> 1000, sp |-> 1, unit |-> "ms"],
     [digits |-> "int", n |-> 1, sp |-> 0, unit |-> "d"],
     [digits |-> "none", n |-> 0, sp |-> 0, unit |-> "h"]}

LegacyAlerts == [QueryStart : MigratedQueryStarts, ThrottleTimeMillis : ThrottleMillis]
NoAlert == [QueryStart |-> NoQueryStart, ThrottleTimeMillis |-> 0]

\* throttleTimeSeconds before the interval is looked at
ThrottleTimeSeconds(ms) ==
    IF ms # 0
      THEN IF ms > 24 * 60 * 60 * 1000 THEN 24 * 60 * 60
           ELSE IF ms < 60 * 1000 THEN 60
           ELSE ms \div 1000
      ELSE 0

\* the error an API request returns
ApiOutcomes == {NoErr, "api error"}

\* `if err != nil { ...; return }` after AggregateAlerts().Create
CreateFailedNever(e) == FALSE
CreateFailed(e) == e # NoErr

\* `if err != nil { ...; return }` after Alerts().Delete
DeleteFailed(e) == e # NoErr

\* migrateLegacyAlert up to the Create request: the query start, the
\* search interval and the throttle time
MigrateBegin ==
    /\ mpc = "idle"
    /\ alertNo < MaxAlerts
    /\ alertNo' = alertNo + 1
    /\ \E a \in LegacyAlerts :
        LET s == getSecondsFromQueryStart(a.QueryStart)
            searchIntervalSeconds == getClosest(s.n, ValidSearchIntervalSeconds)
            intervalModified == s.n # searchIntervalSeconds
        IN  /\ legacyAlert' = a
            /\ secs' = s
            /\ qsIn' = a.QueryStart
            /\ qsOut' = s
            /\ requests' = <<>>
            /\ createErr' = Unset
            /\ deleteErr' = Unset
            /\ legacyExists' = TRUE
            /\ IF s.err # NoErr
                 THEN /\ migResult' = "FAILED error getting seconds from query start"
                      /\ mpc' = "idle"
                      /\ interval' = 0
                      /\ throttle' = 0
                 ELSE IF intervalModified /\ s.n # a.ThrottleTimeMillis \div 1000
                   THEN /\ migResult' = "FAILED search interval was changed"
                        /\ mpc' = "idle"
                        /\ interval' = searchIntervalSeconds
                        /\ throttle' = ThrottleTimeSeconds(a.ThrottleTimeMillis)
                   ELSE /\ migResult' = "INFO migrating legacy alert"
                        /\ mpc' = "create"
                        /\ interval' = searchIntervalSeconds
                        /\ throttle' = IF intervalModified
                                         THEN searchIntervalSeconds
                                         ELSE ThrottleTimeSeconds(a.ThrottleTimeMillis)

\* client.AggregateAlerts().Create(viewName, aggregateAlert)
MigrateCreate ==
    /\ mpc = "create"
    /\ requests' = Append(requests, "create")
    /\ \E e \in ApiOutcomes :
        /\ createErr' = e
        /\ IF CreateFailed(e)
             THEN /\ migResult' = "FAILED creating new aggregate alert"
                  /\ mpc' = "idle"
             ELSE /\ migResult' = "INFO created new aggregate alert"
                  /\ mpc' = "delete"
    /\ UNCHANGED <<qsIn, qsOut, alertNo, legacyAlert, secs, interval, throttle, deleteErr,
                   legacyExists>>

\* client.Alerts().Delete(viewName, legacyAlert.Name).  A request that
\* returns an error may or may not have been carried out
MigrateDelete ==
    /\ mpc = "delete"
    /\ requests' = Append(requests, "delete")
    /\ \E e \in ApiOutcomes :
        /\ deleteErr' = e
        /\ IF DeleteFailed(e)
             THEN /\ migResult' = "FAILED deleting legacy alert"
                  /\ mpc' = "idle"
                  /\ legacyExists' \in BOOLEAN
             ELSE /\ migResult' = "INFO deleted legacy alert"
                  /\ mpc' = "update"
                  /\ legacyExists' = FALSE
    /\ UNCHANGED <<qsIn, qsOut, alertNo, legacyAlert, secs, interval, throttle, createErr>>

\* client.AggregateAlerts().Update(viewName, ...): the rename
MigrateUpdate ==
    /\ mpc = "update"
    /\ requests' = Append(requests, "update")
    /\ \E e \in ApiOutcomes :
        /\ migResult' = IF e # NoErr
                          THEN "FAILED renaming new aggregate alert"
                          ELSE "INFO renamed aggregate alert"
    /\ mpc' = "idle"
    /\ UNCHANGED <<qsIn, qsOut, alertNo, legacyAlert, secs, interval, throttle, createErr,
                   deleteErr, legacyExists>>

(***************************************************************************)
(* The specifications                                                      *)
(***************************************************************************)
Init ==
    /\ now = 1
    /\ sigC = 0
    /\ gpc = "recv"
    /\ cancelled = FALSE
    /\ nextPoll = InitialNextPoll
    /\ wpc = "idle"
    /\ ret = NoReturn
    /\ polls = 0
    /\ issuedAt = 0
    /\ hasResp = FALSE
    /\ respAt = 0
    /\ respPollAfter = 0
    /\ printedIds = {}
    /\ lastIn = <<>>
    /\ lastOut = <<>>
    /\ idCount = [s \in IdStrings |-> 0]
    /\ columns = <<>>
    /\ prevColumns = <<>>
    /\ aggIn = [fieldOrder |-> <<>>, events |-> <<>>]
    /\ aggOut = <<>>
    /\ aggCalls = 0
    /\ sawFieldOrder = FALSE
    /\ epsValue = InitialRate
    /\ bpsValue = InitialRate
    /\ hits = 0
    /\ barSet = <<0, 0>>
    /\ lastUpd = NoMetadata
    /\ jsonIn = NoMetadata
    /\ jsonOut = NoJson
    /\ spc = "start"
    /\ live = FALSE
    /\ jsonProgress = FALSE
    /\ noProgress = FALSE
    /\ created = FALSE
    /\ createRes = Unset
    /\ progress = FALSE
    /\ finished = FALSE
    /\ printer = "none"
    /\ returned = Unset
    /\ err = Unset
    /\ creates = 0
    /\ deletes = 0
    /\ deleteRes = Unset
    /\ okPre = 0
    /\ okLive = 0
    /\ updates = 0
    /\ jsonRecords = 0
    /\ prints = 0
    /\ printedNotDone = FALSE
    /\ sawDone = FALSE
    /\ pollsAtDone = 0
    /\ pollsAtErr = 0
    /\ exitStatus = Running
    /\ stderr = "none"
    /\ resAgg = FALSE
    /\ resEvents = <<>>
    /\ firstAgg = FALSE
    /\ lastTarget = "none"
    /\ printedOther = FALSE
    /\ polledIds = {}
    /\ dueIds = {}
    /\ pollsAtDelete = 0
    /\ disk = {}
    /\ lastProfile = Unset
    /\ lastWrite = NoWrite
    /\ saveRet = Unset
    /\ persisted = FALSE
    /\ addMsg = "none"
    /\ fpc = "new"
    /\ template = <<>>
    /\ efmt = <<>>
    /\ printFields = <<>>
    /\ fmtEvent = NoFmtEvent
    /\ line = <<>>
    /\ qsIn = NoQueryStart
    /\ qsOut = NoSeconds
    /\ mpc = "idle"
    /\ alertNo = 0
    /\ legacyAlert = NoAlert
    /\ secs = NoSeconds
    /\ interval = 0
    /\ throttle = 0
    /\ requests = <<>>
    /\ createErr = Unset
    /\ deleteErr = Unset
    /\ legacyExists = TRUE
    /\ migResult = "none"

NextPoller ==
    \/ Tick /\ UNCHANGED <<pollerVars, eventVars, aggVars, progVars, sessVars, profVars, fmtVars, migVars>>
    \/ Signal /\ UNCHANGED <<pollerVars, eventVars, aggVars, progVars, sessVars, profVars, fmtVars, migVars>>
    \/ InterruptHandler /\ UNCHANGED <<pollerVars, eventVars, aggVars, progVars, sessVars, profVars, fmtVars, migVars>>
    \/ CallWaitAndPoll /\ UNCHANGED <<ctxVars, eventVars, aggVars, progVars, sessVars, profVars, fmtVars, migVars>>
    \/ SelectTimer /\ UNCHANGED <<ctxVars, eventVars, aggVars, progVars, sessVars, profVars, fmtVars, migVars>>
    \/ SelectCancel /\ UNCHANGED <<ctxVars, eventVars, aggVars, progVars, sessVars, profVars, fmtVars, migVars>>
    \/ IssuePoll /\ UNCHANGED <<ctxVars, eventVars, aggVars, progVars, sessVars, profVars, fmtVars, migVars>>
    \/ PollReturns /\ UNCHANGED <<ctxVars, eventVars, aggVars, progVars, sessVars, profVars, fmtVars, migVars>>

SpecPoller == Init /\ [][NextPoller]_vars

NextEvents == PrintEvents /\ UNCHANGED <<ctxVars, pollerVars, aggVars, progVars, sessVars, profVars, fmtVars, migVars>>

SpecEvents == Init /\ [][NextEvents]_vars

NextAggregate == PrintAggregate /\ UNCHANGED <<ctxVars, pollerVars, eventVars, progVars, sessVars, profVars, fmtVars, migVars>>

SpecAggregate == Init /\ [][NextAggregate]_vars

NextProgress ==
    \/ Update /\ UNCHANGED <<ctxVars, pollerVars, eventVars, aggVars, sessVars, profVars, fmtVars, migVars>>
    \/ printQueryResultProgressJson /\ UNCHANGED <<ctxVars, pollerVars, eventVars, aggVars, sessVars, profVars, fmtVars, migVars>>

SpecProgress == Init /\ [][NextProgress]_vars

NextSearch ==
    \/ TimerWait /\ UNCHANGED <<pollerVars, eventVars, aggVars, progVars, sessVars, profVars, fmtVars, migVars>>
    \/ Signal /\ UNCHANGED <<pollerVars, eventVars, aggVars, progVars, sessVars, profVars, fmtVars, migVars>>
    \/ InterruptHandler /\ UNCHANGED <<pollerVars, eventVars, aggVars, progVars, sessVars, profVars, fmtVars, migVars>>
    \/ Run /\ UNCHANGED <<ctxVars, pollerVars, eventVars, aggVars, progVars, profVars, fmtVars, migVars>>
    \/ Create /\ UNCHANGED <<ctxVars, pollerVars, eventVars, aggVars, progVars, profVars, fmtVars, migVars>>
    \/ SessCall /\ UNCHANGED <<ctxVars, eventVars, aggVars, progVars, profVars, fmtVars, migVars>>
    \/ (spc \in {"in1", "inLoop", "inLive"} /\ SelectTimer)
            /\ UNCHANGED <<ctxVars, eventVars, aggVars, progVars, sessVars, profVars, fmtVars, migVars>>
    \/ (spc \in {"in1", "inLoop", "inLive"} /\ SelectCancel)
            /\ UNCHANGED <<ctxVars, eventVars, aggVars, progVars, sessVars, profVars, fmtVars, migVars>>
    \/ (spc \in {"in1", "inLoop", "inLive"} /\ IssuePoll)
            /\ UNCHANGED <<ctxVars, eventVars, aggVars, progVars, sessVars, profVars, fmtVars, migVars>>
    \/ (spc \in {"in1", "inLoop", "inLive"} /\ PollReturns)
            /\ UNCHANGED <<ctxVars, eventVars, aggVars, progVars, sessVars, profVars, fmtVars, migVars>>
    \/ AfterFirstPoll /\ UNCHANGED <<ctxVars, pollerVars, eventVars, aggVars, progVars, profVars, fmtVars, migVars>>
    \/ LoopTest /\ UNCHANGED <<ctxVars, pollerVars, profVars, fmtVars, migVars>>
    \/ AfterLoopPoll /\ UNCHANGED <<ctxVars, pollerVars, eventVars, aggVars, progVars, profVars, fmtVars, migVars>>
    \/ AfterLivePoll /\ UNCHANGED <<ctxVars, pollerVars, progVars, profVars, fmtVars, migVars>>
    \/ Delete /\ UNCHANGED <<ctxVars, pollerVars, eventVars, aggVars, progVars, profVars, fmtVars, migVars>>
    \/ Exit /\ UNCHANGED <<ctxVars, pollerVars, eventVars, aggVars, progVars, profVars, fmtVars, migVars>>

SpecSearch == Init /\ [][NextSearch]_vars

\* the steps of Run's own goroutine, WaitAndPollContext's select excepted
RunStep ==
    \/ Run /\ UNCHANGED <<ctxVars, pollerVars, eventVars, aggVars, progVars, profVars, fmtVars, migVars>>
    \/ Create /\ UNCHANGED <<ctxVars, pollerVars, eventVars, aggVars, progVars, profVars, fmtVars, migVars>>
    \/ SessCall /\ UNCHANGED <<ctxVars, eventVars, aggVars, progVars, profVars, fmtVars, migVars>>
    \/ IssuePoll /\ UNCHANGED <<ctxVars, eventVars, aggVars, progVars, sessVars, profVars, fmtVars, migVars>>
    \/ AfterFirstPoll /\ UNCHANGED <<ctxVars, pollerVars, eventVars, aggVars, progVars, profVars, fmtVars, migVars>>
    \/ LoopTest /\ UNCHANGED <<ctxVars, pollerVars, profVars, fmtVars, migVars>>
    \/ AfterLoopPoll /\ UNCHANGED <<ctxVars, pollerVars, eventVars, aggVars, progVars, profVars, fmtVars, migVars>>
    \/ AfterLivePoll /\ UNCHANGED <<ctxVars, pollerVars, progVars, profVars, fmtVars, migVars>>
    \/ Delete /\ UNCHANGED <<ctxVars, pollerVars, eventVars, aggVars, progVars, profVars, fmtVars, migVars>>
    \/ Exit /\ UNCHANGED <<ctxVars, pollerVars, eventVars, aggVars, progVars, profVars, fmtVars, migVars>>

\* the steps of a session whose job is an event-list query that matches no
\* event: what the snapshots carry is read by the printers only, never by
\* the control flow of Run or of the poller
NextSearchQuiet == NextSearch /\ resEvents' = <<>> /\ resAgg' = FALSE

\* The search command under the scheduling the Go runtime gives it: Run's
\* goroutine and the interrupt goroutine keep running (weak fairness); a
\* request in flight returns (weak fairness of PollReturns, the assumption
\* the claim states); and a select whose ctx.Done case is ready again and
\* again takes it at some time, because select chooses among the ready
\* cases by uniform pseudo-random selection (strong fairness of
\* SelectCancel).  Nothing is assumed of the clock or of signals.
SpecSearchFair ==
    /\ Init
    /\ [][NextSearchQuiet]_vars
    /\ WF_vars(RunStep)
    /\ WF_vars(InterruptHandler /\ UNCHANGED <<pollerVars, eventVars, aggVars, progVars, sessVars, profVars, fmtVars, migVars>>)
    /\ WF_vars(PollReturns /\ UNCHANGED <<ctxVars, eventVars, aggVars, progVars, sessVars, profVars, fmtVars, migVars>>)
    /\ SF_vars(SelectCancel /\ UNCHANGED <<ctxVars, eventVars, aggVars, progVars, sessVars, profVars, fmtVars, migVars>>)

NextProfiles ==
    ProfilesAdd /\ UNCHANGED <<ctxVars, pollerVars, eventVars, aggVars, progVars, sessVars, fmtVars, migVars>>

SpecProfiles == Init /\ [][NextProfiles]_vars

NextFormat ==
    /\ (NewEventListPrinter \/ PrintEventFunc)
    /\ UNCHANGED <<ctxVars, pollerVars, eventVars, aggVars, progVars, sessVars, profVars, migVars>>

SpecFormat == Init /\ [][NextFormat]_vars

NextMigrate ==
    /\ (MigrateBegin \/ MigrateCreate \/ MigrateDelete \/ MigrateUpdate)
    /\ UNCHANGED <<ctxVars, pollerVars, eventVars, aggVars, progVars, sessVars, profVars,
                   fmtVars>>

SpecMigrate == Init /\ [][NextMigrate]_vars

NextQueryStart ==
    /\ GetSeconds
    /\ UNCHANGED <<ctxVars, pollerVars, eventVars, aggVars, progVars, sessVars, profVars,
                   fmtVars>>

SpecQueryStart == Init /\ [][NextQueryStart]_vars

(***************************************************************************)
(* Claims about queryJobPoller.WaitAndPollContext (under SpecPoller)       *)
(***************************************************************************)

\* C1: a PollContext request is never issued before nextPoll, and nextPoll
\* is the time the previous successful response arrived plus the PollAfter
\* that response advised.
C1_NoPollBeforeNextPoll ==
    /\ hasResp => nextPoll = respAt + respPollAfter
    /\ wpc = "inflight" => issuedAt >= nextPoll

\* a second request that went out exactly when the advised delay had passed
C1_Witness ==
    /\ wpc = "inflight"
    /\ hasResp
    /\ polls >= 2
    /\ respPollAfter = MaxPollAfter
    /\ issuedAt = respAt + respPollAfter

\* C2: once the cancellation has fired, a WaitAndPollContext call that is
\* waiting in its select or stands before its request returns the
\* cancellation outcome and issues no PollContext request, also when the
\* timer is ready at the same moment.
C2_CancelledIssuesNoPoll ==
    [][(cancelled /\ wpc \in {"select", "issue"}) =>
          /\ polls' = polls
          /\ wpc = "select" => wpc' \in {"select", "idle"}
          /\ wpc' = "idle" => ret' = Error("Canceled")]_vars

(***************************************************************************)
(* Claims about eventListPrinter.print (under SpecEvents)                  *)
(***************************************************************************)
HasID(e) == IsString(e.id)
HasTs(e) == IsFloat64(e.ts)
NoTs(e)  == ~IsFloat64(e.ts)
Count(e, evs) == Cardinality({i \in 1..Len(evs) : evs[i] = e})

\* C3: every identifier is emitted at most once over all print calls: its
\* first occurrence is emitted, every later one is dropped.
C3_EachIdEmittedAtMostOnce ==
    \A s \in IdStrings :
        /\ idCount[s] <= 1
        /\ CountId(s, lastIn) > 0 => idCount[s] = 1
        /\ idCount[s] = 1 <=> s \in printedIds

\* both occurrences of e1 in a later snapshot are dropped
C3_Witness ==
    /\ CountId("e1", lastIn) = 2
    /\ CountId("e1", lastOut) = 0
    /\ idCount["e1"] = 1

\* C4: an event without an identifier is emitted once per occurrence in the
\* snapshot, whatever the dedup set holds.
C4_NoIdAlwaysEmitted ==
    \A e \in EventDom : ~HasID(e) => Count(e, lastOut) = Count(e, lastIn)

\* two content-identical events without an identifier, both emitted, with
\* an identifier already recorded
C4_Witness ==
    /\ printedIds # {}
    /\ \E e \in EventDom : ~HasID(e) /\ Count(e, lastIn) = 2 /\ Count(e, lastOut) = 2

\* C5 as stated: within one print call every event missing a numeric
\* @timestamp is emitted after all events that have one.
C5_MissingTimestampLast ==
    \A i, j \in 1..Len(lastOut) :
        (NoTs(lastOut[i]) /\ HasTs(lastOut[j])) => j < i

\* C5 amended: within one print call every event missing a numeric
\* @timestamp is emitted before all events that have one.
C5_MissingTimestampFirst ==
    \A i, j \in 1..Len(lastOut) :
        (NoTs(lastOut[i]) /\ HasTs(lastOut[j])) => i < j

\* a snapshot with a timestamped event followed by one without, both emitted
C5_Witness ==
    /\ Len(lastIn) = 2 /\ Len(lastOut) = 2
    /\ HasTs(lastIn[1]) /\ NoTs(lastIn[2])
    /\ NoTs(lastOut[1]) /\ HasTs(lastOut[2])

\* C6: within one print call the events that have a numeric @timestamp are
\* emitted in non-decreasing timestamp order.
C6_TimestampsNonDecreasing ==
    \A i, j \in 1..Len(lastOut) :
        (i < j /\ HasTs(lastOut[i]) /\ HasTs(lastOut[j])) => lastOut[i].ts.n <= lastOut[j].ts.n

\* timestamps [20, 10] are emitted as 10, 20
C6_Witness ==
    /\ Len(lastIn) = 2 /\ Len(lastOut) = 2
    /\ lastIn[1].ts = Num(20) /\ lastIn[2].ts = Num(10)
    /\ lastOut[1].ts = Num(10) /\ lastOut[2].ts = Num(20)

\* C7: the ordering is stable: when no event is dropped, the events missing
\* a timestamp are emitted in the relative order they have in the snapshot.
C7_StableAmongMissing ==
    Len(lastOut) = Len(lastIn) => SelectSeq(lastOut, NoTs) = SelectSeq(lastIn, NoTs)

(***************************************************************************)
(* Claims about aggregatePrinter.print (under SpecAggregate)               *)
(***************************************************************************)
IsPrefix(s, t) == Len(s) <= Len(t) /\ SubSeq(t, 1, Len(s)) = s

\* C8: when no snapshot carried an explicit field order, the column list
\* holds no column name more than once.
C8_NoDuplicateColumns ==
    ~sawFieldOrder =>
        \A i, j \in 1..Len(columns) : i # j => columns[i] # columns[j]

\* C9 as stated: the column list held before a print call is a prefix of the
\* one held after it, with or without an explicit field order.
C9_ColumnsOnlyGrow == IsPrefix(prevColumns, columns)

\* C9 amended: after a print call whose snapshot carries no explicit field
\* order the column list held before the call is a prefix of the one held
\* after it; a snapshot with an explicit field order replaces the column
\* list by that field order.
C9_ColumnsGrowWithoutFieldOrder ==
    IF Len(aggIn.fieldOrder) > 0
      THEN columns = aggIn.fieldOrder
      ELSE IsPrefix(prevColumns, columns)

\* a later call without field order that added a column to known ones
C9_Witness ==
    /\ aggCalls >= 2
    /\ Len(aggIn.fieldOrder) = 0
    /\ prevColumns = <<"a">>
    /\ columns = <<"a", "b">>

\* the text Go prints for the cell values of the model
ExpectedLine(v) ==
    CASE v = Num(7)   -> "7\n"
      [] v = Str("x") -> "x\n"
      [] v = Absent   -> "<nil>\n"

\* C10: with exactly one column and exactly one row the output is the bare
\* scalar and a newline; in every other case with at least one column it is
\* a table headed by the columns.
C10_SingleCellIsBareScalar ==
    aggCalls > 0 =>
        IF Len(columns) = 1 /\ Len(aggIn.events) = 1
          THEN aggOut = <<Text(ExpectedLine(aggIn.events[1][columns[1]]))>>
          ELSE Len(columns) >= 1 =>
                 /\ Len(aggOut) = 2
                 /\ aggOut[1].t = "table"
                 /\ aggOut[1].header = columns
                 /\ Len(aggOut[1].rows) = Len(aggIn.events)
                 /\ aggOut[2] = Text("\n")

\* one column, one row holding 7: the output is "7\n"
C10_Witness ==
    /\ Len(columns) = 1
    /\ Len(aggIn.events) = 1
    /\ aggOut = <<Text("7\n")>>

(***************************************************************************)
(* Claims about the progress reporters (under SpecProgress)                *)
(***************************************************************************)

\* C11 as stated: for a snapshot with TimeMillis = 0 the JSON progress
\* record renders epsValue and bpsValue as absent or empty, never as 0.
C11_JsonThroughputAbsent ==
    (jsonIn # NoMetadata /\ jsonIn.TimeMillis = 0) =>
        /\ jsonOut.epsValue \in {"", "null"}
        /\ jsonOut.bpsValue \in {"", "null"}

\* C11 amended: for a snapshot with TimeMillis = 0 the JSON progress record
\* renders epsValue and bpsValue as the number 0, never as NaN and never
\* absent.
C11_JsonThroughputZero ==
    (jsonIn # NoMetadata /\ jsonIn.TimeMillis = 0) =>
        /\ jsonOut.epsValue = "0"
        /\ jsonOut.bpsValue = "0"

\* a record for a snapshot that has processed events and bytes in no time
C11_Witness ==
    /\ jsonIn # NoMetadata
    /\ jsonIn.TimeMillis = 0
    /\ jsonIn.ProcessedEvents = 1
    /\ jsonIn.ProcessedBytes = 1
    /\ jsonOut.epsValue = "0"

\* C12 as stated: after an Update with TimeMillis = 0 both throughput
\* callbacks return the empty string, whatever was passed to Update before.
C12_CallbacksEmptyAtZero ==
    (lastUpd # NoMetadata /\ lastUpd.TimeMillis = 0) =>
        /\ additionalInfoEps = ""
        /\ additionalInfoBps = ""

(***************************************************************************)
(* Claims about one run of the search command (under SpecSearch)           *)
(***************************************************************************)
\* Run is past the lambda
Returned == spc \in {"delete", "exit", "done"}

\* a snapshot has been received and the loop test has not yet handled it
Pending == IF spc = "test" THEN 1 ELSE 0

\* C13: with --json-progress, printer.print is never called at any point of
\* the session, in non-live and in live mode alike.
C13_JsonProgressNeverPrints ==
    jsonProgress => prints = 0

\* C14 as stated: every snapshot of a successful poll is fed to the active
\* progress reporter exactly once before the next poll; with --json-progress
\* the records printed equal the successful polls so far, those of the live
\* loop included.
C14_RecordPerSuccessfulPoll ==
    /\ progress => updates = okPre + okLive - Pending
    /\ jsonProgress => jsonRecords = okPre + okLive - Pending

\* C14 amended: every snapshot received up to and including the first Done
\* snapshot is fed to the active progress reporter exactly once before the
\* next poll; with --json-progress the records printed equal the successful
\* polls made up to and including the first Done snapshot.  The snapshots
\* of the live loop are fed to no progress reporter.
C14_RecordPerPollUntilDone ==
    /\ progress => updates = okPre - Pending
    /\ jsonProgress => jsonRecords = okPre - Pending
    /\ ~progress => updates = 0
    /\ ~jsonProgress => jsonRecords = 0

\* a live session with --json-progress that has polled after its Done snapshot
C14_Witness ==
    /\ jsonProgress
    /\ live
    /\ okPre >= 2
    /\ okLive >= 1
    /\ jsonRecords = okPre

C16_QueryErrorReported ==
    returned = "QueryError" =>
        /\ polls = pollsAtErr
        /\ creates = 1
        /\ spc = "done" => (stderr = "query" /\ exitStatus = 1)

\* a query error reported by a poll after an earlier snapshot
C16_Witness ==
    /\ spc = "done"
    /\ returned = "QueryError"
    /\ okPre >= 1
    /\ stderr = "query"
    /\ exitStatus = 1

\* C17: once Create or a poll has returned an error, no further create or
\* poll request is made, the session's result is exactly that error, and
\* the exit status is 1 unless the error is the cancellation.
C17_NoRetryAfterError ==
    (returned # Unset /\ returned # NoErr) =>
        /\ polls = pollsAtErr
        /\ creates = 1
        /\ wpc = "idle"
        /\ returned = (IF created THEN ret.err ELSE createRes)
        /\ spc \in {"exit", "done"} => err = returned
        /\ (spc = "done" /\ returned # "Canceled") => exitStatus = 1

\* a transport error of a poll after an earlier snapshot
C17_Witness ==
    /\ spc = "done"
    /\ returned = "TransportError"
    /\ okPre >= 1
    /\ polls < MaxPolls
    /\ exitStatus = 1

\* C18: after a successful Create, Delete is requested on every path out of
\* the session, exactly once, and what Delete returns changes neither the
\* session's result nor the exit status.
C18_DeleteAlwaysAndIgnored ==
    /\ (created /\ spc \in {"exit", "done"}) => (deletes = 1 /\ err = returned)
    /\ ~created => deletes = 0
    /\ spc = "done" =>
          exitStatus = (IF returned \in {NoErr, "Canceled"} THEN 0 ELSE 1)

\* a normal completion whose Delete failed
C18_Witness ==
    /\ spc = "done"
    /\ created
    /\ deleteRes = "TransportError"
    /\ returned = NoErr
    /\ exitStatus = 0

\* C19: in live mode the lambda never returns nil: it returns only an error
\* of Create, or the error (cancellation included) that a
\* WaitAndPollContext call returned.
C19_LiveNeverCompletes ==
    (live /\ Returned) =>
        /\ returned # NoErr
        /\ returned # Unset
        /\ created => (ret.kind = "error" /\ returned = ret.err)

\* a live session cancelled after it printed snapshots that followed Done
C19_Witness ==
    /\ live
    /\ spc = "done"
    /\ sawDone
    /\ okLive >= 1
    /\ returned = "Canceled"

\* C20: in non-live mode no poll request is made after the first Done
\* snapshot has arrived, and without --json-progress printer.print is called
\* exactly once, on that Done snapshot: never on a snapshot that is not
\* Done, and not before the session completes normally.
C20_NonLiveStopsAtDone ==
    ~live =>
        /\ sawDone => polls = pollsAtDone
        /\ okLive = 0
        /\ ~jsonProgress =>
              /\ ~printedNotDone
              /\ prints = (IF returned = NoErr THEN 1 ELSE 0)
              /\ returned = NoErr => sawDone

\* a non-live session that completed on its second snapshot
C20_Witness ==
    /\ spc = "done"
    /\ ~live
    /\ ~jsonProgress
    /\ okPre >= 2
    /\ polls = pollsAtDone
    /\ polls < MaxPolls
    /\ prints = 1

\* C21: the printer is chosen once, from the IsAggregate flag of the first
\* snapshot, and every printer.print of the session goes to that printer,
\* also when the printed snapshot carries another IsAggregate value.
C21_PrinterFixedByFirstSnapshot ==
    /\ okPre >= 1 => printer = PrinterFor(firstAgg)
    /\ okPre = 0 => printer = "none"
    /\ prints >= 1 => lastTarget = printer
    /\ printer = "events" => aggCalls = 0
    /\ printer = "aggregate" => lastIn = <<>>

\* an event-list session that printed a snapshot flagged as aggregate
C21_Witness ==
    /\ printer = "events"
    /\ ~firstAgg
    /\ printedOther
    /\ resAgg
    /\ prints >= 2
    /\ lastTarget = "events"

(***************************************************************************)
(* More claims about the poller (under SpecPoller)                         *)
(***************************************************************************)

\* C22: the first WaitAndPollContext call does not wait: until a response
\* has set nextPoll, nextPoll is not later than the current time, so the
\* timer case of the select is ready at once.
C22_FirstPollImmediate ==
    ~hasResp => (nextPoll <= now /\ TimerFired(now, nextPoll))

\* the first request went out at the time the poller was constructed
C22_Witness ==
    /\ polls = 1
    /\ ~hasResp
    /\ wpc = "inflight"
    /\ issuedAt = 1
    /\ now = 1

(***************************************************************************)
(* More claims about one run of the search command (under SpecSearch)      *)
(***************************************************************************)

\* C23 as stated: in event-list mode every polled snapshot, intermediate or
\* final, is fed to the deduplicator: when the next poll is about to be
\* made, every @id a polled snapshot carried is in the dedup set.
C23_EverySnapshotDeduplicated ==
    (printer = "events" /\ spc \in {"pollLoop", "pollLive"}) =>
        polledIds \subseteq printedIds

\* C23 amended: in event-list mode the deduplicator is fed exactly the
\* snapshots that are printed: the first Done snapshot (unless
\* --json-progress) and every snapshot of the live loop.  Every @id of such a
\* snapshot is in the dedup set before the next poll; the @id values of an
\* intermediate snapshot (Done = false) are not recorded.
C23_PrintedSnapshotsDeduplicated ==
    printer = "events" =>
        /\ printedIds \subseteq dueIds
        /\ spc # "test" => dueIds \subseteq printedIds

\* a live session whose intermediate snapshot was empty, and whose Done
\* snapshot carried an event that is now recorded
C23_Witness ==
    /\ printer = "events"
    /\ live
    /\ spc = "pollLive"
    /\ okPre >= 2
    /\ okLive = 0
    /\ dueIds = {"e1"}
    /\ printedIds = {"e1"}

\* C28: Delete is the last request of a session: it is requested at most
\* once, only after Create succeeded (never when Create failed), and once
\* it is requested no poll request and no Create follows.
C28_DeleteIsLastRequest ==
    /\ deletes <= 1
    /\ ~created => deletes = 0
    /\ deletes = 1 =>
          /\ created
          /\ creates = 1
          /\ polls = pollsAtDelete
          /\ wpc = "idle"
          /\ spc \in {"exit", "done"}

\* a session that polled twice, was deleted, and could still have polled
C28_Witness ==
    /\ spc = "done"
    /\ deletes = 1
    /\ polls = 2
    /\ polls < MaxPolls
    /\ pollsAtDelete = 2

(***************************************************************************)
(* Termination on cancellation (under SpecSearchFair)                      *)
(***************************************************************************)
\* Run has returned, and the job was deleted if it had been created
Terminated == spc = "done" /\ (created => deletes = 1)

\* the model stops a session that has used up its MaxPolls requests
Capped == polls = MaxPolls /\ spc \in CallSites

\* C27: once the interrupt signal has been delivered to the handler, the
\* session eventually terminates, whether or not the job ever reports Done
\* or an error: Run returns and Delete has been attempted.
C27_CancelTerminates ==
    ((sigC = 1 /\ gpc = "recv") \/ cancelled) ~> (Terminated \/ Capped)

\* a session of a job that never reported Done, ended by the interrupt
C27_Witness ==
    /\ spc = "done"
    /\ cancelled
    /\ returned = "Canceled"
    /\ ~sawDone
    /\ okPre >= 2
    /\ polls < MaxPolls
    /\ deletes = 1

(***************************************************************************)
(* More claims about eventListPrinter.print (under SpecEvents)             *)
(***************************************************************************)

\* C26: the dedup set grows monotonically: no print call removes an
\* identifier from it, and when a print call returns the set contains every
\* identifier carried by an event of the snapshot it was given.
C26_DedupSetGrows ==
    [][/\ printedIds \subseteq printedIds'
       /\ IdsOf(lastIn') \subseteq printedIds']_vars

\* a print call whose snapshot carries only e2 returns with e1, recorded by
\* an earlier call, still in the set
C26_Witness ==
    /\ IdsOf(lastIn) = {"e2"}
    /\ printedIds = {"e1", "e2"}

(***************************************************************************)
(* Claims about the format template (under SpecFormat)                     *)
(***************************************************************************)
\* the width a modifier selects: an integer, or none
IsWidth(arg) == arg # <<>> /\ \A i \in 1..Len(arg) : arg[i] = "2"

\* every reference of the template is {field}, {field:} or {field:width}
PlainReferences(t) ==
    \A i \in 1..Len(Segments(t, 1)) :
        LET seg == Segments(t, 1)[i]
        IN  seg.ref => (ArgOf(seg.body) = <<>> \/ IsWidth(ArgOf(seg.body)))

\* the line the template stands for: the literal characters as they are,
\* and for every reference the value of its field, padded to its width
RECURSIVE Rendered(_, _)
Rendered(segs, m) ==
    IF segs = <<>> THEN <<>>
    ELSE LET seg == Head(segs)
             val == FieldPrinter(FieldOf(seg.body), m)
         IN  (IF seg.ref
                THEN Pad(ParseNum(ArgOf(seg.body), 1, 0).num, val) \o <<val>>
                ELSE seg.body)
               \o Rendered(Tail(segs), m)

\* C25: the literal characters outside the braced references appear
\* unchanged in each rendered line, and each reference is replaced by the
\* value of its field, in template order, also when the literal text
\* contains the character '%'.
C25_LiteralsPassThrough ==
    (fpc = "built" /\ fmtEvent # NoFmtEvent /\ PlainReferences(template))
        => line = Rendered(Segments(template, 1), fmtEvent) \o <<"\n">>

(***************************************************************************)
(* Claims about the migration of legacy alerts (under SpecMigrate)         *)
(***************************************************************************)
Requested(r) == \E i \in 1..Len(requests) : requests[i] = r

\* C24: the legacy alert is deleted only if the migration was successful: a
\* delete is requested only after the aggregate alert was created without
\* an error; on every failure path (unparsable query start, rejected
\* interval and throttle combination, create error) neither a delete nor an
\* update is requested; and when the migration comes to its rename, the
\* legacy alert has been deleted.
C24_DeleteOnlyAfterCreate ==
    /\ Requested("delete") =>
          /\ requests[1] = "create" /\ requests[2] = "delete"
          /\ createErr = NoErr
    /\ migResult \in {"FAILED error getting seconds from query start",
                      "FAILED search interval was changed",
                      "FAILED creating new aggregate alert"}
          => ~Requested("delete") /\ ~Requested("update")
    /\ (mpc = "update" \/ Requested("update")) =>
          /\ SubSeq(requests, 1, 2) = <<"create", "delete">>
          /\ deleteErr = NoErr
          /\ ~legacyExists

\* a migration that went through: create, delete, rename
C24_Witness ==
    /\ migResult = "INFO renamed aggregate alert"
    /\ requests = <<"create", "delete", "update">>
    /\ ~legacyExists

(***************************************************************************)
(* Claims about getSecondsFromQueryStart (under SpecQueryStart)            *)
(***************************************************************************)

\* C29: getSecondsFromQueryStart converts every query start its own
\* pattern accepts: for each unit spelling the pattern matches (with at
\* least 1000 for the millisecond units) it returns a number of seconds,
\* and the "unexpected matching" error is unreachable.
C29_EveryAcceptedConverted ==
    /\ qsOut.err # "unexpected matching"
    /\ ( /\ qsOut # NoSeconds
         /\ Matches(qsIn)
         /\ qsIn.digits = "int"
         /\ (IsMilli(qsIn.unit) => qsIn.n >= 1000) )
         => qsOut.err = NoErr

(***************************************************************************)
(* Claims about profiles add (under SpecProfiles)                          *)
(***************************************************************************)

\* C30: saveConfig returns nil only if the configuration was written, so
\* the success message is printed only after the profile is on disk.
C30_NilOnlyIfWritten ==
    /\ saveRet = NoErr => persisted
    /\ addMsg = "Successfully added profile" => lastProfile \in disk

====
